---------------------------- MODULE Spec2Model ----------------------------
(* A model of src/src/parser.py (class ResumeParser): the text acquisition, *)
(* the four extractors and parse().                                         *)
(*                                                                          *)
(* A text is a sequence of characters, each character a one-character       *)
(* string; the bullet U+2022 is written "BULLET".  Positions are 1-based:   *)
(* Python's span [start, end) is the subsequence start+1 .. end.            *)
EXTENDS Integers, Sequences, FiniteSets, TLC

VARIABLES
    pc,         \* the method about to run, or "returned" / "raised"
    path,       \* parse: the file behind file_path
    text,       \* the resume text
    ents,       \* doc.ents: the recognizer's entities, a sequence of [text, label]
    contact,    \* extract_contact_info: the contact dict
    pi,         \* extract_contact_info: the last phone pattern searched
    skills,     \* extract_skills: the returned list
    matches,    \* extract_education: the match objects, one per entry
    education,  \* extract_education: the returned list
    sections,   \* extract_experience: the sections re.split returned
    experience, \* extract_experience: the list before the final slice
    result      \* extract_experience, parse: the returned value

vars == <<pc, path, text, ents, contact, pi, skills, matches, education,
          sections, experience, result>>

\* Python's None
Null == <<"None">>

(***************************************************************************)
(* Characters                                                              *)
(***************************************************************************)
UpperCase == <<"A","B","C","D","E","F","G","H","I","J","K","L","M",
               "N","O","P","Q","R","S","T","U","V","W","X","Y","Z">>
LowerCase == <<"a","b","c","d","e","f","g","h","i","j","k","l","m",
               "n","o","p","q","r","s","t","u","v","w","x","y","z">>
Upper == {UpperCase[i] : i \in 1..26}
Lower == {LowerCase[i] : i \in 1..26}
Letter == Upper \cup Lower
Digit == {"0","1","2","3","4","5","6","7","8","9"}
\* \w, \s and \d of Python's re, on ASCII
Word == Letter \cup Digit \cup {"_"}
Space == {" ", "\t", "\n", "\r", "\f"}

ToLower == [c \in Upper |-> LowerCase[CHOOSE i \in 1..26 : UpperCase[i] = c]]
ToUpper == [c \in Lower |-> UpperCase[CHOOSE i \in 1..26 : LowerCase[i] = c]]
LowerChar(c) == IF c \in Upper THEN ToLower[c] ELSE c
UpperChar(c) == IF c \in Lower THEN ToUpper[c] ELSE c

\* The printable ASCII characters in code-point order: 32 (the space) to 95,
\* and 97 to 126.
AsciiLow == <<" ","!","\"","#","$","%","&","'","(",")","*","+",",","-",".","/",
              "0","1","2","3","4","5","6","7","8","9",":",";","<","=",">","?",
              "@","A","B","C","D","E","F","G","H","I","J","K","L","M","N","O",
              "P","Q","R","S","T","U","V","W","X","Y","Z","[","\\","]","^","_">>
AsciiHigh == <<"a","b","c","d","e","f","g","h","i","j","k","l","m","n","o",
               "p","q","r","s","t","u","v","w","x","y","z","{","|","}","~">>
OrdTable ==
    [c \in {AsciiLow[i] : i \in 1..Len(AsciiLow)} |->
        31 + (CHOOSE i \in 1..Len(AsciiLow) : AsciiLow[i] = c)] @@
    [c \in {AsciiHigh[i] : i \in 1..Len(AsciiHigh)} |->
        96 + (CHOOSE i \in 1..Len(AsciiHigh) : AsciiHigh[i] = c)]
\* ord(c)
Ord(c) == CASE c \in DOMAIN OrdTable -> OrdTable[c]
            [] c = "\t" -> 9
            [] c = "\n" -> 10
            [] c = "\f" -> 12
            [] c = "\r" -> 13
            [] c = "BULLET" -> 8226

MinOf(S) == CHOOSE x \in S : \A y \in S : x <= y
MaxOf(S) == CHOOSE x \in S : \A y \in S : x >= y

\* str.lower()
LowerStr(t) == [i \in 1..Len(t) |-> LowerChar(t[i])]

\* str.strip()
Strip(t) ==
    LET keep == {i \in 1..Len(t) : t[i] \notin Space}
    IN  IF keep = {} THEN <<>> ELSE SubSeq(t, MinOf(keep), MaxOf(keep))

\* Python's t[a:b] for 0-based a, b: a negative index counts from the end,
\* and both are clipped to the text.
PySlice(t, a, b) ==
    LET n == Len(t)
        lo == IF a < 0 THEN (IF n + a < 0 THEN 0 ELSE n + a) ELSE (IF a > n THEN n ELSE a)
        hi == IF b < 0 THEN (IF n + b < 0 THEN 0 ELSE n + b) ELSE (IF b > n THEN n ELSE b)
    IN  SubSeq(t, lo + 1, hi)

\* len(t.split()): the number of maximal runs of non-whitespace characters
WordCount(t) ==
    Cardinality({i \in 1..Len(t) :
                   t[i] \notin Space /\ (i = 1 \/ t[i-1] \in Space)})

(***************************************************************************)
(* Regular expressions, matched the way Python's re matches them: by       *)
(* backtracking, the alternatives of a node tried in their order, so that  *)
(* the first match found is the one re returns.                            *)
(***************************************************************************)
Set(S) == [k |-> "set", s |-> S]
Chr(c) == Set({c})
Cat(rs) == [k |-> "cat", rs |-> rs]
Alt(rs) == [k |-> "alt", rs |-> rs]
\* max = -1: no upper limit
Rep(r, min, max) == [k |-> "rep", r |-> r, min |-> min, max |-> max, greedy |-> TRUE]
Opt(r) == Rep(r, 0, 1)
Star(r) == Rep(r, 0, -1)
Plus(r) == Rep(r, 1, -1)
LazyPlus(r) == [k |-> "rep", r |-> r, min |-> 1, max |-> -1, greedy |-> FALSE]
Grp(r) == [k |-> "grp", r |-> r]
WordBoundary == [k |-> "wb"]
\* a literal string
Lit(s) == Cat([i \in 1..Len(s) |-> Chr(s[i])])

\* the state of a match: the position of the next character, and group 1
NoMatch == [p |-> 0, gs |-> 0, ge |-> 0]

CharIn(c, S, ic) ==
    IF ic THEN c \in S \/ LowerChar(c) \in S \/ UpperChar(c) \in S ELSE c \in S

IsWordAt(t, i) == i >= 1 /\ i <= Len(t) /\ t[i] \in Word

RECURSIVE Match(_, _, _, _)
\* the state after the nodes rs have matched t from state st, or NoMatch
Match(rs, t, st, ic) ==
    IF rs = <<>> THEN st
    ELSE
      LET r == Head(rs)
          rest == Tail(rs)
      IN
      CASE r.k = "set" ->
             IF st.p <= Len(t) /\ CharIn(t[st.p], r.s, ic)
             THEN Match(rest, t, [st EXCEPT !.p = @ + 1], ic)
             ELSE NoMatch
        [] r.k = "cat" -> Match(r.rs \o rest, t, st, ic)
        [] r.k = "alt" ->
             IF r.rs = <<>> THEN NoMatch
             ELSE LET first == Match(<<Head(r.rs)>> \o rest, t, st, ic)
                  IN  IF first.p # 0 THEN first
                      ELSE Match(<<Alt(Tail(r.rs))>> \o rest, t, st, ic)
        [] r.k = "rep" /\ r.max = -1 /\ r.r.k = "set" ->
             \* an unlimited run of one character class: run is the longest
             \* run there is; a greedy run gives characters back one at a
             \* time, a lazy one takes them one at a time, until the rest of
             \* the pattern matches.  n counts the attempts that fail first.
             LET stopAt == CHOOSE e \in st.p..(Len(t) + 1) :
                             /\ e = Len(t) + 1 \/ ~CharIn(t[e], r.r.s, ic)
                             /\ \A j \in st.p..(e - 1) : CharIn(t[j], r.r.s, ic)
                 run == stopAt - st.p
                 try(n) == Match(rest, t,
                                 [st EXCEPT !.p = IF r.greedy THEN stopAt - n
                                                  ELSE st.p + r.min + n], ic)
                 tries == run - r.min + 1
                 n == CHOOSE k \in 0..tries :
                        /\ k = tries \/ try(k).p # 0
                        /\ \A j \in 0..(k - 1) : try(j).p = 0
             IN  IF run < r.min \/ n = tries THEN NoMatch ELSE try(n)
        [] r.k = "rep" ->
             LET again == [r EXCEPT !.min = IF @ = 0 THEN 0 ELSE @ - 1,
                                    !.max = IF @ = -1 THEN -1 ELSE @ - 1]
                 more == IF r.max = 0 THEN NoMatch
                         ELSE Match(<<r.r, again>> \o rest, t, st, ic)
                 stop == IF r.min = 0 THEN Match(rest, t, st, ic) ELSE NoMatch
             IN  IF r.greedy
                 THEN IF more.p # 0 THEN more ELSE stop
                 ELSE IF stop.p # 0 THEN stop ELSE more
        [] r.k = "grp" ->
             Match(<<r.r, [k |-> "gend"]>> \o rest, t, [st EXCEPT !.gs = st.p], ic)
        [] r.k = "gend" -> Match(rest, t, [st EXCEPT !.ge = st.p], ic)
        [] r.k = "wb" ->
             IF IsWordAt(t, st.p - 1) # IsWordAt(t, st.p)
             THEN Match(rest, t, st, ic)
             ELSE NoMatch

\* a match object: [s, e] is the span (s = match.start() + 1, e = match.end()),
\* [gs, ge] the span of group 1; s = 0 stands for None
None == [s |-> 0, e |-> 0, gs |-> 0, ge |-> 0]
\* the match object of a match that started at s and ended in state m
MatchObject(m, s) ==
    IF m.p = 0 THEN None
    ELSE [s |-> s, e |-> m.p - 1, gs |-> m.gs, ge |-> m.ge - 1]

\* re.match(re, t[s-1:]); there is no match past the end of t
MatchAt(re, t, s, ic) ==
    IF s > Len(t) + 1 THEN None
    ELSE MatchObject(Match(<<re>>, t, [p |-> s, gs |-> 0, ge |-> 0], ic), s)

\* re.search(re, t[from-1:]): the match at the leftmost position that has one
\* (position Len(t) + 2 stands for none)
SearchFrom(re, t, from, ic) ==
    MatchAt(re, t,
            CHOOSE s \in from..(Len(t) + 2) :
               /\ s = Len(t) + 2 \/ MatchAt(re, t, s, ic).s # 0
               /\ \A j \in from..(s - 1) : MatchAt(re, t, j, ic).s = 0,
            ic)

Search(re, t, ic) == SearchFrom(re, t, 1, ic)

\* match.group()
Group0(t, m) == SubSeq(t, m.s, m.e)
\* match.group(1)
Group1(t, m) == SubSeq(t, m.gs, m.ge)

(***************************************************************************)
(* The patterns of parser.py                                               *)
(***************************************************************************)
\* r'\b[A-Za-z0-9._%+-]+@[A-Za-z0-9.-]+\.[A-Z|a-z]{2,}\b'
email_pattern ==
    Cat(<<WordBoundary,
          Plus(Set(Letter \cup Digit \cup {".", "_", "%", "+", "-"})),
          Chr("@"),
          Plus(Set(Letter \cup Digit \cup {".", "-"})),
          Chr("."),
          Rep(Set(Upper \cup {"|"} \cup Lower), 2, -1),
          WordBoundary>>)

\* [-.\s]
PhoneSep == Set({"-", "."} \cup Space)
\* r'\+?\d{1,3}[-.\s]?\(?\d{3}\)?[-.\s]?\d{3}[-.\s]?\d{4}'
\* r'\(\d{3}\)\s*\d{3}[-.\s]?\d{4}'
\* r'\d{3}[-.\s]?\d{3}[-.\s]?\d{4}'
phone_patterns ==
    << Cat(<<Opt(Chr("+")), Rep(Set(Digit), 1, 3), Opt(PhoneSep),
             Opt(Chr("(")), Rep(Set(Digit), 3, 3), Opt(Chr(")")), Opt(PhoneSep),
             Rep(Set(Digit), 3, 3), Opt(PhoneSep), Rep(Set(Digit), 4, 4)>>),
       Cat(<<Chr("("), Rep(Set(Digit), 3, 3), Chr(")"), Star(Set(Space)),
             Rep(Set(Digit), 3, 3), Opt(PhoneSep), Rep(Set(Digit), 4, 4)>>),
       Cat(<<Rep(Set(Digit), 3, 3), Opt(PhoneSep),
             Rep(Set(Digit), 3, 3), Opt(PhoneSep), Rep(Set(Digit), 4, 4)>>) >>

\* r'linkedin\.com/in/[\w-]+'
linkedin_pattern == Cat(<<Lit(<<"l","i","n","k","e","d","i","n",".","c","o","m","/","i","n","/">>), Plus(Set(Word \cup {"-"}))>>)
\* r'github\.com/[\w-]+'
github_pattern == Cat(<<Lit(<<"g","i","t","h","u","b",".","c","o","m","/">>), Plus(Set(Word \cup {"-"}))>>)

\* [\w\s]
WordOrSpace == Set(Word \cup Space)
\* r'(Bachelor|Master|PhD|B\.S\.|M\.S\.|Ph\.D\.|BS|MS)\s+(?:of\s+)?(?:Science|Arts|Engineering|Computer Science|Business|in\s+[\w\s]+)'
\* r'(Associate|Diploma)\s+(?:of\s+)?[\w\s]+'
degree_patterns ==
    << Cat(<<Grp(Alt(<<Lit(<<"B","a","c","h","e","l","o","r">>),
                        Lit(<<"M","a","s","t","e","r">>),
                        Lit(<<"P","h","D">>),
                        Lit(<<"B",".","S",".">>),
                        Lit(<<"M",".","S",".">>),
                        Lit(<<"P","h",".","D",".">>),
                        Lit(<<"B","S">>),
                        Lit(<<"M","S">>)>>)),
             Plus(Set(Space)),
             Opt(Cat(<<Lit(<<"o","f">>), Plus(Set(Space))>>)),
             Alt(<<Lit(<<"S","c","i","e","n","c","e">>),
                   Lit(<<"A","r","t","s">>),
                   Lit(<<"E","n","g","i","n","e","e","r","i","n","g">>),
                   Lit(<<"C","o","m","p","u","t","e","r"," ","S","c","i","e","n","c","e">>),
                   Lit(<<"B","u","s","i","n","e","s","s">>),
                   Cat(<<Lit(<<"i","n">>), Plus(Set(Space)), Plus(WordOrSpace)>>)>>)>>),
       Cat(<<Grp(Alt(<<Lit(<<"A","s","s","o","c","i","a","t","e">>),
                        Lit(<<"D","i","p","l","o","m","a">>)>>)),
             Plus(Set(Space)),
             Opt(Cat(<<Lit(<<"o","f">>), Plus(Set(Space))>>)),
             Plus(WordOrSpace)>>) >>

\* r'\n\s*\n'
section_split == Cat(<<Chr("\n"), Star(Set(Space)), Chr("\n")>>)
\* r'(Engineer|Analyst|Developer|Manager|Director|Specialist|Consultant|Coordinator)'
\* r'(Senior|Junior|Lead|Principal|Staff|Chief)\s+\w+'
job_title_patterns ==
    << Grp(Alt(<<Lit(<<"E","n","g","i","n","e","e","r">>),
                   Lit(<<"A","n","a","l","y","s","t">>),
                   Lit(<<"D","e","v","e","l","o","p","e","r">>),
                   Lit(<<"M","a","n","a","g","e","r">>),
                   Lit(<<"D","i","r","e","c","t","o","r">>),
                   Lit(<<"S","p","e","c","i","a","l","i","s","t">>),
                   Lit(<<"C","o","n","s","u","l","t","a","n","t">>),
                   Lit(<<"C","o","o","r","d","i","n","a","t","o","r">>)>>)),
       Cat(<<Grp(Alt(<<Lit(<<"S","e","n","i","o","r">>),
                        Lit(<<"J","u","n","i","o","r">>),
                        Lit(<<"L","e","a","d">>),
                        Lit(<<"P","r","i","n","c","i","p","a","l">>),
                        Lit(<<"S","t","a","f","f">>),
                        Lit(<<"C","h","i","e","f">>)>>)),
             Plus(Set(Space)), Plus(Set(Word))>>) >>
\* r'at\s+([\w\s&,.]+?)(?:\||•|\n|20\d{2})'
CompanyChar == Word \cup Space \cup {"&", ",", "."}
company_pattern ==
    Cat(<<Lit(<<"a","t">>), Plus(Set(Space)),
          Grp(LazyPlus(Set(CompanyChar))),
          Alt(<<Chr("|"), Chr("BULLET"), Chr("\n"),
                Cat(<<Lit(<<"2","0">>), Rep(Set(Digit), 2, 2)>>)>>)>>)

(***************************************************************************)
(* extract_contact_info                                                    *)
(***************************************************************************)
RECURSIVE PhoneLoopNoBreak(_, _)
\* PhoneLoop without its break: a later pattern that matches wins
PhoneLoopNoBreak(t, i) ==
    IF i > Len(phone_patterns) THEN [phone |-> Null, last |-> i - 1]
    ELSE LET phone_match == Search(phone_patterns[i], t, FALSE)
             later == PhoneLoopNoBreak(t, i + 1)
         IN  IF phone_match.s # 0 /\ later.phone = Null
             THEN [phone |-> Group0(t, phone_match), last |-> later.last]
             ELSE later

RECURSIVE PhoneLoop(_, _)
\* the loop over phone_patterns from pattern i on: the phone, and the index
\* of the last pattern searched
PhoneLoop(t, i) ==
    IF i > Len(phone_patterns) THEN [phone |-> Null, last |-> i - 1]
    ELSE LET phone_match == Search(phone_patterns[i], t, FALSE)
         IN  IF phone_match.s # 0
             THEN [phone |-> Group0(t, phone_match), last |-> i]
             ELSE PhoneLoop(t, i + 1)

\* one field of the contact dict: the first match of a pattern, or None
FirstMatch(re, t, ic) ==
    LET m == Search(re, t, ic) IN IF m.s # 0 THEN Group0(t, m) ELSE Null

extract_contact_info(t) ==
    [email |-> FirstMatch(email_pattern, t, FALSE),
     phone |-> PhoneLoop(t, 1).phone,
     linkedin |-> FirstMatch(linkedin_pattern, t, TRUE),
     github |-> FirstMatch(github_pattern, t, TRUE)]

(***************************************************************************)
(* extract_skills                                                          *)
(***************************************************************************)
\* self.skills_keywords, its lists one after the other
skills_keywords == <<
    \* programming
    <<"p","y","t","h","o","n">>,
    <<"j","a","v","a">>,
    <<"j","a","v","a","s","c","r","i","p","t">>,
    <<"c","+","+">>,
    <<"r">>,
    <<"s","q","l">>,
    <<"c","#">>,
    \* data
    <<"p","a","n","d","a","s">>,
    <<"n","u","m","p","y">>,
    <<"t","e","n","s","o","r","f","l","o","w">>,
    <<"p","y","t","o","r","c","h">>,
    <<"s","p","a","r","k">>,
    <<"h","a","d","o","o","p">>,
    \* tools
    <<"g","i","t">>,
    <<"d","o","c","k","e","r">>,
    <<"k","u","b","e","r","n","e","t","e","s">>,
    <<"j","e","n","k","i","n","s">>,
    <<"a","w","s">>,
    <<"a","z","u","r","e">>,
    <<"g","c","p">>,
    \* analytics
    <<"t","a","b","l","e","a","u">>,
    <<"p","o","w","e","r"," ","b","i">>,
    <<"e","x","c","e","l">>,
    <<"s","a","s">>,
    <<"s","t","a","t","a">>,
    <<"s","p","s","s">>,
    \* databases
    <<"m","y","s","q","l">>,
    <<"p","o","s","t","g","r","e","s","q","l">>,
    <<"m","o","n","g","o","d","b">>,
    <<"r","e","d","i","s">>,
    <<"o","r","a","c","l","e">>,
    <<"s","q","l","i","t","e">>,
    \* methodologies
    <<"a","g","i","l","e">>,
    <<"s","c","r","u","m">>,
    <<"k","a","n","b","a","n">>,
    <<"w","a","t","e","r","f","a","l","l">>,
    <<"d","e","v","o","p","s">>,
    <<"c","i","/","c","d">> >>

\* keyword in text_lower
Contains(t, w) ==
    \E i \in 1..(Len(t) - Len(w) + 1) : SubSeq(t, i, i + Len(w) - 1) = w

\* str.title(): a letter after a letter is lower-cased, any other upper-cased
Title(s) ==
    [i \in 1..Len(s) |->
        IF i > 1 /\ s[i-1] \in Letter THEN LowerChar(s[i]) ELSE UpperChar(s[i])]

\* a < b for two strings: the order sorted() puts them in
StrLess(a, b) ==
    \E k \in 1..Len(b) :
        /\ \A j \in 1..(k - 1) : j <= Len(a) /\ a[j] = b[j]
        /\ (k > Len(a) \/ (k <= Len(a) /\ Ord(a[k]) < Ord(b[k])))

RECURSIVE Sorted(_)
\* sorted(list(S))
Sorted(S) ==
    IF S = {} THEN <<>>
    ELSE LET least == CHOOSE x \in S : \A y \in S \ {x} : StrLess(x, y)
         IN  <<least>> \o Sorted(S \ {least})

\* KeywordSkills without text.lower(): the keywords are looked up in the
\* text as it is
KeywordSkillsCaseSensitive(t) ==
    {Title(skills_keywords[i]) :
       i \in {j \in 1..Len(skills_keywords) : Contains(t, skills_keywords[j])}}

\* the skills the keyword loop adds
KeywordSkills(t) ==
    LET text_lower == LowerStr(t)
    IN  {Title(skills_keywords[i]) :
           i \in {j \in 1..Len(skills_keywords) : Contains(text_lower, skills_keywords[j])}}

\* the skills the loop over doc.ents adds
EntitySkills(es) ==
    {Strip(es[i].text) :
       i \in {j \in 1..Len(es) :
                /\ es[j].label \in {"ORG", "PRODUCT"}
                /\ Len(Strip(es[j].text)) > 2
                /\ Len(Strip(es[j].text)) < 30}}

extract_skills(t, es) == Sorted(KeywordSkills(t) \cup EntitySkills(es))

(***************************************************************************)
(* extract_education                                                       *)
(***************************************************************************)
EducationWindow == 200

\* extract_education_context without max(0, ...): a negative context_start
\* counts from the end of the text
extract_education_context_unclipped(t, start, end) ==
    LET context_start == start - EducationWindow
        context_end == IF end + EducationWindow < Len(t) THEN end + EducationWindow ELSE Len(t)
    IN  Strip(PySlice(t, context_start, context_end))

\* start and end are Python's match.start() and match.end()
extract_education_context(t, start, end) ==
    LET context_start == IF start - EducationWindow > 0 THEN start - EducationWindow ELSE 0
        context_end == IF end + EducationWindow < Len(t) THEN end + EducationWindow ELSE Len(t)
    IN  Strip(PySlice(t, context_start, context_end))

RECURSIVE FindIter(_, _, _, _), FindNext(_, _, _, _)
\* re.finditer: the successive matches, each search starting where the
\* match before it ended (none of the patterns matches the empty string)
FindIter(re, t, from, ic) == FindNext(re, t, SearchFrom(re, t, from, ic), ic)
\* the match m, when there is one, and the matches after it
FindNext(re, t, m, ic) ==
    IF m.s = 0 THEN <<>>
    ELSE <<m>> \o FindIter(re, t, (IF m.e >= m.s THEN m.e ELSE m.s) + 1, ic)

\* the matches found of pattern i, each with the index of its pattern
OfPattern(found, i) ==
    [j \in 1..Len(found) |-> [pat |-> i, s |-> found[j].s, e |-> found[j].e]]

RECURSIVE EducationLoopByPosition(_, _)
\* EducationLoop with the matches of all patterns merged by position
EducationLoopByPosition(t, i) ==
    IF i > Len(degree_patterns) THEN <<>>
    ELSE LET mine == OfPattern(FindIter(degree_patterns[i], t, 1, TRUE), i)
             rest == EducationLoopByPosition(t, i + 1)
             all == {mine[j] : j \in 1..Len(mine)} \cup {rest[j] : j \in 1..Len(rest)}
             before(a, b) == a.s < b.s \/ (a.s = b.s /\ a.pat < b.pat)
         IN  [n \in 1..Cardinality(all) |->
                CHOOSE m \in all : Cardinality({o \in all : before(o, m)}) = n - 1]

RECURSIVE EducationLoop(_, _)
\* the loop over degree_patterns from pattern i on: the match objects in
\* the order the entries are appended, each with the index of its pattern
EducationLoop(t, i) ==
    IF i > Len(degree_patterns) THEN <<>>
    ELSE OfPattern(FindIter(degree_patterns[i], t, 1, TRUE), i)
         \o EducationLoop(t, i + 1)

EducationEntry(t, m) ==
    [degree |-> SubSeq(t, m.s, m.e),
     details |-> extract_education_context(t, m.s - 1, m.e)]

(***************************************************************************)
(* extract_experience                                                      *)
(***************************************************************************)
ExcerptLen == 200
MaxExperience == 5

RECURSIVE Split(_, _, _), SplitAt(_, _, _, _)
\* re.split(re, t): the pieces of t between the successive matches of re
Split(re, t, from) == SplitAt(re, t, from, SearchFrom(re, t, from, FALSE))
\* the piece before the separator m, when there is one, and the pieces after
SplitAt(re, t, from, m) ==
    IF m.s = 0 THEN <<SubSeq(t, from, Len(t))>>
    ELSE <<SubSeq(t, from, m.s - 1)>> \o Split(re, t, m.e + 1)

\* ExperienceEntry without re.IGNORECASE in the company search
ExperienceEntryCaseSensitive(section) ==
    LET company_match == Search(company_pattern, section, FALSE)
    IN  [section_text |-> PySlice(section, 0, ExcerptLen),
         has_job_title |-> TRUE,
         company |-> IF company_match.s # 0 THEN Group1(section, company_match) ELSE Null]

ExperienceEntry(section) ==
    LET company_match == Search(company_pattern, section, TRUE)
    IN  [section_text |-> PySlice(section, 0, ExcerptLen),
         has_job_title |-> TRUE,
         company |-> IF company_match.s # 0 THEN Group1(section, company_match) ELSE Null]

RECURSIVE TitleLoopNoBreak(_, _)
\* TitleLoop without its break: every pattern that matches appends an entry
TitleLoopNoBreak(section, i) ==
    IF i > Len(job_title_patterns) THEN <<>>
    ELSE IF Search(job_title_patterns[i], section, TRUE).s # 0
         THEN <<ExperienceEntry(section)>> \o TitleLoopNoBreak(section, i + 1)
         ELSE TitleLoopNoBreak(section, i + 1)

RECURSIVE TitleLoop(_, _)
\* the loop over job_title_patterns from pattern i on, for one section: the
\* entries it appends
TitleLoop(section, i) ==
    IF i > Len(job_title_patterns) THEN <<>>
    ELSE IF Search(job_title_patterns[i], section, TRUE).s # 0
         THEN <<ExperienceEntry(section)>>
         ELSE TitleLoop(section, i + 1)

RECURSIVE SectionLoop(_, _)
\* the loop over the sections from section k on
SectionLoop(secs, k) ==
    IF k > Len(secs) THEN <<>>
    ELSE TitleLoop(secs[k], 1) \o SectionLoop(secs, k + 1)

\* TopExperience without the slice
TopExperienceUncut(exp) == exp

\* experience[:5]
TopExperience(exp) == PySlice(exp, 0, MaxExperience)

(***************************************************************************)
(* Text acquisition.  A file is [pdf, fault, pages]: pdf says whether      *)
(* file_path ends with '.pdf'; pages are the texts of the pages of a PDF   *)
(* document, or the pieces of the content of any other file; fault is what *)
(* goes wrong when the file is read: "none", "missing" (open() raises      *)
(* FileNotFoundError), "decode" (the content cannot be decoded: PdfReader  *)
(* or f.read() raises) or "page" (extract_text() raises on the last page). *)
(***************************************************************************)
RECURSIVE Flatten(_)
\* the texts of q one after the other
Flatten(q) == IF q = <<>> THEN <<>> ELSE Head(q) \o Flatten(Tail(q))

\* extract_text_from_pdf without its try/except: the failure leaves the method
extract_text_from_pdf_uncaught(f) ==
    [raised |-> f.fault # "none",
     text |-> IF f.fault # "none" THEN <<>> ELSE Flatten(f.pages)]

\* the result of reading: the text, or raised = TRUE for an exception that
\* leaves the method
extract_text_from_pdf(f) ==
    [raised |-> FALSE,
     text |-> IF f.fault # "none" THEN <<>> ELSE Flatten(f.pages)]

\* read_text_file with the failure caught and the empty text returned
read_text_file_caught(f) ==
    [raised |-> FALSE,
     text |-> IF f.fault # "none" THEN <<>> ELSE Flatten(f.pages)]

\* with open(file_path, 'r', encoding='utf-8') as f: text = f.read()
read_text_file(f) ==
    [raised |-> f.fault # "none",
     text |-> IF f.fault # "none" THEN <<>> ELSE Flatten(f.pages)]

(***************************************************************************)
(* The calls                                                               *)
(***************************************************************************)
NoFile == [pdf |-> FALSE, fault |-> "none", pages |-> <<>>]

\* nothing has been extracted yet
Fresh ==
    /\ contact = [email |-> Null, phone |-> Null, linkedin |-> Null, github |-> Null]
    /\ pi = 0
    /\ skills = <<>>
    /\ matches = <<>>
    /\ education = <<>>
    /\ sections = <<>>
    /\ experience = <<>>
    /\ result = Null

RECURSIVE Concats(_, _)
\* the concatenations of at most k elements of S
Concats(S, k) ==
    IF k = 0 THEN {<<>>}
    ELSE LET shorter == Concats(S, k - 1)
         IN  shorter \cup {a \o b : a \in shorter, b \in S}

(***************************************************************************)
(* extract_contact_info(text), on texts that hold an address between other *)
(* characters, and on texts made of phone numbers of the three formats     *)
(***************************************************************************)
MaxSurround == 2
MaxPhoneSegs == 2
SurroundChars == {<<" ">>, <<"|">>, <<"x">>}
Addresses == {<<"a","@","b",".","c","o">>, <<"j",".","d","@","x",".","i","o">>}
EmailTexts ==
    {pre \o addr \o post :
        pre \in Concats(SurroundChars, MaxSurround),
        addr \in Addresses,
        post \in Concats(SurroundChars, MaxSurround)}
PhoneSegs ==
    {<<"+","1","-","5","5","5","-","5","5","5","-","1","2","3","4">>,
     <<"(","5","5","5",")"," ","5","5","5","-","1","2","3","4">>,
     <<"5","5","5","-","5","5","5","-","1","2","3","4">>,
     <<"5","5","5","-","1","2","3","4">>,
     <<"1","5","5","5","5","5","5","1","2","3","4">>,
     <<" ">>,
     <<"x">>}
PhoneTexts == Concats(PhoneSegs, MaxPhoneSegs)

InitContact ==
    /\ pc = "extract_contact_info"
    /\ text \in EmailTexts \cup PhoneTexts
    /\ path = NoFile
    /\ ents = <<>>
    /\ Fresh

CallExtractContactInfo ==
    /\ pc = "extract_contact_info"
    /\ contact' = extract_contact_info(text)
    /\ pi' = PhoneLoop(text, 1).last
    /\ pc' = "returned"
    /\ UNCHANGED <<path, text, ents, skills, matches, education, sections,
                   experience, result>>

SpecContact == InitContact /\ [][CallExtractContactInfo]_vars
(***************************************************************************)
(* The claims about extract_contact_info                                   *)
(***************************************************************************)
\* pattern i of phone_patterns matches t at position s
PhoneMatchesAt(t, i, s) == MatchAt(phone_patterns[i], t, s, FALSE).s # 0
\* the patterns of phone_patterns that match somewhere in t
PhoneHits(t) ==
    {i \in 1..Len(phone_patterns) : \E s \in 1..(Len(t) + 1) : PhoneMatchesAt(t, i, s)}

\* C2: the phone is the leftmost match of the lowest-numbered pattern that
\* matches anywhere in the text, and that pattern is the last one searched;
\* the phone is None only when none of the three patterns matches, and then
\* after all three were searched.
C2_PhonePriority ==
    pc = "returned" =>
        IF PhoneHits(text) = {}
        THEN contact.phone = Null /\ pi = Len(phone_patterns)
        ELSE LET i == MinOf(PhoneHits(text))
                 s == MinOf({p \in 1..(Len(text) + 1) : PhoneMatchesAt(text, i, p)})
             IN  /\ contact.phone = Group0(text, MatchAt(phone_patterns[i], text, s, FALSE))
                 /\ contact.phone # Null
                 /\ pi = i

\* C2, witness: the first pattern matched, and stopped the loop, in a text
\* where the third pattern has a match further left.
C2_Witness ==
    /\ pc = "returned"
    /\ pi = 1
    /\ contact.phone # Null
    /\ \E s \in 1..Len(text) :
          /\ PhoneMatchesAt(text, 3, s)
          /\ \A p \in 1..s : ~PhoneMatchesAt(text, 1, p)

\* the characters of the three parts of an address
LocalChar == Letter \cup Digit \cup {".", "_", "%", "+", "-"}
DomainChar == Letter \cup Digit \cup {".", "-"}
\* t[s..e] is a well-formed address user@domain.tld
WellFormedAddress(t, s, e) ==
    \E a \in (s + 1)..(e - 4) : \E d \in (a + 2)..(e - 2) :
        /\ t[a] = "@"
        /\ t[d] = "."
        /\ \A j \in s..(a - 1) : t[j] \in LocalChar
        /\ \A j \in (a + 1)..(d - 1) : t[j] \in DomainChar
        /\ \A j \in (d + 1)..e : t[j] \in Letter
\* the spans of the well-formed addresses of t that are part of no longer one
AddressSpans(t) ==
    LET all == {sp \in (1..Len(t)) \X (1..Len(t)) : WellFormedAddress(t, sp[1], sp[2])}
    IN  {sp \in all : \A other \in all :
            (other[1] <= sp[1] /\ sp[2] <= other[2]) => other = sp}

\* C3: for a text that contains exactly one well-formed address, whatever
\* surrounds it, the email is that exact address.
C3_EmailExact ==
    (pc = "returned" /\ Cardinality(AddressSpans(text)) = 1) =>
        \A sp \in AddressSpans(text) : contact.email = SubSeq(text, sp[1], sp[2])

(***************************************************************************)
(* extract_skills(text), on texts made of keywords in several letter       *)
(* cases.  doc.ents is whatever the recognizer finds: any sequence of      *)
(* labelled entities whose texts are parts of the text.                    *)
(***************************************************************************)
MaxSkillChunks == 2
MaxEnts == 1
SkillChunks ==
    {<<"P","y","t","h","o","n">>, <<"p","y","t","h","o","n">>, <<"a","w","s">>, <<"A","W","S">>, <<" ">>, <<"P","o","w","e","r"," ","B","I">>}
SkillTexts == Concats(SkillChunks, MaxSkillChunks)
EntityTexts == {<<"A","W","S">>, <<" ","P","y","t","h","o","n">>, <<"B","I">>}
EntityLabels == {"ORG", "PRODUCT", "PERSON"}

RECURSIVE SeqsUpTo(_, _)
\* the sequences of at most k elements of S
SeqsUpTo(S, k) ==
    IF k = 0 THEN {<<>>}
    ELSE LET shorter == SeqsUpTo(S, k - 1)
         IN  shorter \cup {Append(q, x) : q \in shorter, x \in S}

\* self.nlp(t).ents: the outputs the recognizer may give for t
Recognitions(t) ==
    SeqsUpTo({[text |-> e, label |-> l] :
                 e \in {x \in EntityTexts : Contains(t, x)}, l \in EntityLabels},
             MaxEnts)

InitSkills ==
    /\ pc = "extract_skills"
    /\ text \in SkillTexts
    /\ path = NoFile
    /\ ents = <<>>
    /\ Fresh

CallExtractSkills ==
    /\ pc = "extract_skills"
    /\ \E es \in Recognitions(text) :
          /\ ents' = es
          /\ skills' = extract_skills(text, es)
    /\ pc' = "returned"
    /\ UNCHANGED <<path, text, contact, pi, matches, education, sections,
                   experience, result>>

SpecSkills == InitSkills /\ [][CallExtractSkills]_vars

(***************************************************************************)
(* The claims about extract_skills                                         *)
(***************************************************************************)
\* w occurs in t in some letter case
OccursAnyCase(t, w) ==
    \E i \in 1..(Len(t) - Len(w) + 1) :
        \A j \in 1..Len(w) : LowerChar(t[i + j - 1]) = w[j]
\* how many entries of the list q are x
Count(q, x) == Cardinality({i \in 1..Len(q) : q[i] = x})

\* C5: the returned list is strictly ascending, and holds the title-cased
\* form of every lexicon keyword that occurs in the text in any letter case
\* exactly once, whatever the recognizer found: one "Python" for a text with
\* "Python" and "python", one "Aws" for a text with "aws" and "AWS".
C5_SkillsSortedUnique ==
    pc = "returned" =>
        /\ \A i \in 1..(Len(skills) - 1) : StrLess(skills[i], skills[i + 1])
        /\ \A k \in 1..Len(skills_keywords) :
              OccursAnyCase(text, skills_keywords[k])
                  => Count(skills, Title(skills_keywords[k])) = 1
        /\ (Contains(text, <<"P","y","t","h","o","n">>) /\ Contains(text, <<"p","y","t","h","o","n">>))
              => Count(skills, <<"P","y","t","h","o","n">>) = 1
        /\ (Contains(text, <<"a","w","s">>) /\ Contains(text, <<"A","W","S">>))
              => Count(skills, <<"A","w","s">>) = 1

\* C5, witness: a text with "aws" and "AWS" in which the recognizer found
\* the organization "AWS": the list holds "AWS" and one "Aws", in that order.
C5_Witness ==
    /\ pc = "returned"
    /\ Contains(text, <<"a","w","s">>)
    /\ Contains(text, <<"A","W","S">>)
    /\ \E i \in 1..Len(ents) : ents[i].label = "ORG" /\ ents[i].text = <<"A","W","S">>
    /\ \E i \in 1..(Len(skills) - 1) : skills[i] = <<"A","W","S">> /\ skills[i + 1] = <<"A","w","s">>

(***************************************************************************)
(* extract_education(text), on texts with a degree between paddings as     *)
(* long as the context window, and on texts made of several degrees        *)
(***************************************************************************)
MaxSlack == 1
MaxEduSegs == 3
\* n characters of padding: full stops, every second one a space if spaced
Pad(n, spaced) == [i \in 1..n |-> IF spaced /\ i % 2 = 0 THEN " " ELSE "."]
PadLens ==
    (0..MaxSlack) \cup ((EducationWindow - MaxSlack)..(EducationWindow + MaxSlack))
WindowDegrees == {<<"B","S"," ","A","r","t","s">>, <<"D","i","p","l","o","m","a"," ","o","f"," ","A","r","t","s">>}
WindowTexts ==
    {Pad(a, sp) \o d \o Pad(b, sp) :
        a \in PadLens, b \in PadLens, sp \in BOOLEAN, d \in WindowDegrees}
EduSegs == {<<"B","S"," ","A","r","t","s">>, <<"D","i","p","l","o","m","a"," ","o","f"," ","A","r","t","s">>, <<"."," ">>, <<"M","S"," ","i","n"," ","D","a","t","a">>}
OrderTexts == Concats(EduSegs, MaxEduSegs)

InitEducation ==
    /\ pc = "extract_education"
    /\ text \in WindowTexts \cup OrderTexts
    /\ path = NoFile
    /\ ents = <<>>
    /\ Fresh

CallExtractEducation ==
    /\ pc = "extract_education"
    /\ matches' = EducationLoop(text, 1)
    /\ education' = [i \in 1..Len(matches') |-> EducationEntry(text, matches'[i])]
    /\ pc' = "returned"
    /\ UNCHANGED <<path, text, ents, contact, pi, skills, sections,
                   experience, result>>

SpecEducation == InitEducation /\ [][CallExtractEducation]_vars

(***************************************************************************)
(* The claims about extract_education                                      *)
(***************************************************************************)
Smaller(a, b) == IF a < b THEN a ELSE b

\* C4: the context of an entry whose match has the span [start, end) is the
\* text from start - min(200, start) to end + min(200, len(text) - end),
\* stripped: never an index outside the text.
C4_ContextWindow ==
    pc = "returned" =>
        /\ Len(education) = Len(matches)
        /\ \A i \in 1..Len(education) :
              LET start == matches[i].s - 1
                  end == matches[i].e
                  before == Smaller(EducationWindow, start)
                  after == Smaller(EducationWindow, Len(text) - end)
              IN  /\ start - before >= 0
                  /\ end + after <= Len(text)
                  /\ education[i].details
                        = Strip(SubSeq(text, start - before + 1, end + after))

\* C4, witness: a match with more than 200 characters on both sides, whose
\* window starts or ends with whitespace that is stripped.
C4_Witness ==
    /\ pc = "returned"
    /\ \E i \in 1..Len(education) :
          /\ matches[i].s - 1 > EducationWindow
          /\ Len(text) - matches[i].e > EducationWindow
          /\ Len(education[i].details)
                < 2 * EducationWindow + (matches[i].e - matches[i].s + 1)

\* every match of each pattern has exactly one entry, with the matched text
EveryMatchOnce ==
    /\ Len(education) = Len(matches)
    /\ \A i \in 1..Len(education) :
          education[i].degree = SubSeq(text, matches[i].s, matches[i].e)
    /\ \A p \in 1..Len(degree_patterns) :
          LET found == FindIter(degree_patterns[p], text, 1, TRUE)
          IN  \A j \in 1..Len(found) :
                Cardinality({i \in 1..Len(matches) :
                               matches[i] = [pat |-> p, s |-> found[j].s, e |-> found[j].e]}) = 1
    /\ \A i \in 1..Len(matches) :
          \E j \in 1..Len(FindIter(degree_patterns[matches[i].pat], text, 1, TRUE)) :
              LET m == FindIter(degree_patterns[matches[i].pat], text, 1, TRUE)[j]
              IN  m.s = matches[i].s /\ m.e = matches[i].e

\* C8 as stated: one entry per match, none dropped as a duplicate, the
\* entries ordered by match position first and by pattern second.
C8_PositionOrder ==
    pc = "returned" =>
        /\ EveryMatchOnce
        /\ \A i \in 1..Len(matches) : \A j \in (i + 1)..Len(matches) :
              \/ matches[i].s < matches[j].s
              \/ matches[i].s = matches[j].s /\ matches[i].pat < matches[j].pat

\* C8, amended: one entry per match, none dropped as a duplicate, the
\* entries ordered by pattern first and by match position second.
C8_PatternOrder ==
    pc = "returned" =>
        /\ EveryMatchOnce
        /\ \A i \in 1..Len(matches) : \A j \in (i + 1)..Len(matches) :
              \/ matches[i].pat < matches[j].pat
              \/ matches[i].pat = matches[j].pat /\ matches[i].e < matches[j].s

\* C8, witness: two entries with the same degree text, followed by an
\* Associate/Diploma entry whose match starts before theirs.
C8_Witness ==
    /\ pc = "returned"
    /\ \E i \in 1..Len(matches) : \E j \in (i + 1)..Len(matches) :
          \E k \in (j + 1)..Len(matches) :
              /\ education[i].degree = education[j].degree
              /\ matches[j].pat = 1
              /\ matches[k].pat = 2
              /\ matches[k].s < matches[i].s

(***************************************************************************)
(* extract_experience(text), on texts of many short sections, on texts of  *)
(* sections with and without a company, and on sections as long as the    *)
(* excerpt                                                                 *)
(***************************************************************************)
MaxSections == 7
MaxDetailSections == 2

RECURSIVE Join(_, _)
\* sep.join(secs)
Join(secs, sep) ==
    IF secs = <<>> THEN <<>>
    ELSE IF Len(secs) = 1 THEN secs[1]
    ELSE secs[1] \o sep \o Join(Tail(secs), sep)

CapSections == {<<"E","n","g","i","n","e","e","r">>, <<"m","e","m","o">>}
CapTexts ==
    {Join(secs, <<"\n", "\n">>) : secs \in SeqsUpTo(CapSections, MaxSections)}
DetailSections ==
    {<<"E","n","g","i","n","e","e","r"," ","a","t"," ","A","c","m","e","|">>,
     <<"l","e","a","d"," ","d","e","v"," ","a","t"," ","a","c","m","e"," ","c","o"," ","2","0","1","9">>,
     <<"F","o","r","m","a","t"," ","x","|","y"," ","M","a","n","a","g","e","r">>,
     <<"S","t","a","f","f"," ","E","n","g">>,
     <<"m","e","m","o"," ","a","t"," ","A","c","m","e","|">>,
     <<"M","a","n","a","g","e","r"," ","a","t","\n","A","c","m","e","\n">>,
     <<"E","n","g","i","n","e","e","r"," ","A","t"," ","B","i","g"," ","&"," ","C","o",".","BULLET">>,
     <<"C","h","i","e","f"," ","A","n","a","l","y","s","t">>}
DetailTexts ==
    {Join(secs, <<"\n", " ", "\n">>) : secs \in SeqsUpTo(DetailSections, MaxDetailSections)}
LongTexts ==
    {<<"S","e","n","i","o","r"," ","E","n","g","i","n","e","e","r">> \o Pad(n, FALSE) \o tail :
        n \in (ExcerptLen - MaxSlack)..(ExcerptLen + MaxSlack),
        tail \in {<<>>, <<"\n", "\n">> \o <<"m","e","m","o">>}}

InitExperience ==
    /\ pc = "extract_experience"
    /\ text \in CapTexts \cup DetailTexts \cup LongTexts
    /\ path = NoFile
    /\ ents = <<>>
    /\ Fresh

CallExtractExperience ==
    /\ pc = "extract_experience"
    /\ sections' = Split(section_split, text, 1)
    /\ experience' = SectionLoop(sections', 1)
    /\ result' = TopExperience(experience')
    /\ pc' = "returned"
    /\ UNCHANGED <<path, text, ents, contact, pi, skills, matches, education>>

SpecExperience == InitExperience /\ [][CallExtractExperience]_vars

(***************************************************************************)
(* The claims about extract_experience                                     *)
(***************************************************************************)
\* pattern p of job_title_patterns matches somewhere in the section
TitleMatches(section, p) ==
    \E s \in 1..(Len(section) + 1) :
        MatchAt(job_title_patterns[p], section, s, TRUE).s # 0
\* the section qualifies: one of the two families matches in it
Qualifies(section) == \E p \in 1..Len(job_title_patterns) : TitleMatches(section, p)
\* the indices of the qualifying sections
Qualifying == {k \in 1..Len(sections) : Qualifies(sections[k])}
\* the n-th smallest element of the set q
Nth(q, n) == CHOOSE k \in q : Cardinality({j \in q : j <= k}) = n

C9_OneEntryPerSection ==
    pc = "returned" =>
        LET q == Qualifying
        IN  /\ Len(experience) = Cardinality(q)
            /\ \A n \in 1..Len(experience) :
                  LET section == sections[Nth(q, n)]
                  IN  /\ experience[n].section_text
                            = SubSeq(section, 1, Smaller(200, Len(section)))
                      /\ experience[n].has_job_title = TRUE

\* C9, witness: a section matched by both families and a section matched by
\* neither, one entry in all, cut to 200 characters.
C9_Witness ==
    /\ pc = "returned"
    /\ \E k \in 1..Len(sections) :
          /\ TitleMatches(sections[k], 1)
          /\ TitleMatches(sections[k], 2)
          /\ Len(sections[k]) > 200
    /\ \E k \in 1..Len(sections) : ~Qualifies(sections[k])
    /\ Len(experience) = 1
    /\ Len(experience[1].section_text) = 200

\* the delimiter, line break or year 20dd that ends a company, at position k
EndsCompanyAt(t, k) ==
    /\ k <= Len(t)
    /\ \/ t[k] \in {"|", "BULLET", "\n"}
       \/ /\ k + 3 <= Len(t)
          /\ t[k] = "2" /\ t[k + 1] = "0"
          /\ t[k + 2] \in Digit /\ t[k + 3] \in Digit
\* "at" in any letter case at position i
AtAt(t, i) == i + 1 <= Len(t) /\ LowerChar(t[i]) = "a" /\ LowerChar(t[i + 1]) = "t"
\* whitespace, and nothing else, behind the "at" at i up to position j
SpaceTo(t, i, j) == j >= i + 3 /\ \A x \in (i + 2)..(j - 1) : t[x] \in Space
\* from j up to k a non-empty run of word characters, whitespace, "&", ","
\* and "." that is ended at k
RunTo(t, j, k) ==
    /\ k > j /\ \A x \in j..(k - 1) : t[x] \in Word \cup Space \cup {"&", ",", "."}
    /\ EndsCompanyAt(t, k)
\* "at" as a word of its own
WordAtAt(t, i) == AtAt(t, i) /\ t[i] = "a" /\ t[i + 1] = "t" /\ (i = 1 \/ t[i - 1] \notin Word)
Positions(t) == 1..(Len(t) + 1)

\* C10 as stated: the company is non-null only when the section holds the
\* word "at" followed by a capitalized phrase that a delimiter, a line break
\* or a year 20dd ends; it is then that phrase, and null in every other case.
C10_CapitalizedCompany ==
    pc = "returned" =>
        LET q == Qualifying IN
        \A n \in 1..Len(experience) :
            LET section == sections[Nth(q, n)]
                company == experience[n].company
                \* the phrases the claim allows
                phrases ==
                    {jk \in Positions(section) \X Positions(section) :
                        /\ jk[1] <= Len(section) /\ section[jk[1]] \in Upper
                        /\ RunTo(section, jk[1], jk[2])
                        /\ \E i \in Positions(section) :
                              WordAtAt(section, i) /\ SpaceTo(section, i, jk[1])}
            IN  IF phrases = {} THEN company = Null
                ELSE \E jk \in phrases : company = SubSeq(section, jk[1], jk[2] - 1)

\* C10, amended: the company is non-null exactly when the section holds
\* "at" in any letter case, a word of its own or not, followed by whitespace
\* and a run, capitalized or not, that a delimiter, a line break or a year
\* 20dd ends; it is then the shortest such run, after the longest whitespace
\* that leaves one, behind the leftmost such "at".
C10_Company ==
    pc = "returned" =>
        LET q == Qualifying IN
        \A n \in 1..Len(experience) :
            LET section == sections[Nth(q, n)]
                company == experience[n].company
                runs(i) == {j \in Positions(section) :
                              /\ SpaceTo(section, i, j)
                              /\ \E k \in Positions(section) : RunTo(section, j, k)}
                ats == {i \in Positions(section) : AtAt(section, i) /\ runs(i) # {}}
                i0 == MinOf(ats)
                j0 == MaxOf(runs(i0))
                k0 == MinOf({k \in Positions(section) : RunTo(section, j0, k)})
            IN  IF ats = {} THEN company = Null
                ELSE company # Null /\ company = SubSeq(section, j0, k0 - 1)

\* C10, witness: a company that is not capitalized, and a company behind an
\* "at" that is the end of a longer word.
C10_Witness ==
    /\ pc = "returned"
    /\ \E n \in 1..Len(experience) :
          /\ experience[n].company # Null
          /\ experience[n].company[1] \in Lower
    /\ \E n \in 1..Len(experience) :
          /\ experience[n].company # Null
          /\ Contains(sections[Nth(Qualifying, n)],
                      <<"m","a","t"," ">> \o experience[n].company)

(***************************************************************************)
(* parse(file_path)                                                        *)
(***************************************************************************)
MaxPages == 2
PageTexts ==
    {<<"a","@","b",".","c","o"," ">>,
     <<"A","W","S">>,
     <<"B","S"," ","A","r","t","s",".">>,
     <<"S","e","n","i","o","r"," ","E","n","g","i","n","e","e","r"," ","a","t"," ","A","c","m","e","|","\n","\n">>,
     <<"5","5","5","-","5","5","5","-","1","2","3","4"," ">>}
Files ==
    {f \in [pdf : BOOLEAN, fault : {"none", "missing", "decode", "page"},
            pages : SeqsUpTo(PageTexts, MaxPages)] :
        /\ f.fault = "missing" => f.pages = <<>>
        /\ f.fault = "page" => f.pdf /\ f.pages # <<>>}

Init ==
    /\ pc = "parse"
    /\ path \in Files
    /\ text = <<>>
    /\ ents = <<>>
    /\ Fresh

\* the lines of parse that acquire the text
ParseRead ==
    /\ pc = "parse"
    /\ LET read == IF path.pdf THEN extract_text_from_pdf(path)
                   ELSE read_text_file(path)
       IN  IF read.raised
           THEN pc' = "raised" /\ UNCHANGED text
           ELSE pc' = "extract" /\ text' = read.text
    /\ UNCHANGED <<path, ents, contact, pi, skills, matches, education,
                   sections, experience, result>>

\* the lines of parse that build parsed_data and return it
ParseExtract ==
    /\ pc = "extract"
    /\ \E es \in Recognitions(text) :
          /\ ents' = es
          /\ contact' = extract_contact_info(text)
          /\ pi' = PhoneLoop(text, 1).last
          /\ skills' = extract_skills(text, es)
          /\ matches' = EducationLoop(text, 1)
          /\ education' = [i \in 1..Len(matches') |-> EducationEntry(text, matches'[i])]
          /\ sections' = Split(section_split, text, 1)
          /\ experience' = SectionLoop(sections', 1)
          /\ result' = [raw_text |-> text,
                        contact |-> contact',
                        skills |-> skills',
                        education |-> education',
                        experience |-> TopExperience(experience'),
                        word_count |-> WordCount(text),
                        parsed_successfully |-> TRUE]
    /\ pc' = "returned"
    /\ UNCHANGED <<path, text>>

Next == ParseRead \/ ParseExtract

Spec == Init /\ [][Next]_vars

(***************************************************************************)
(* The claims about parse                                                  *)
(***************************************************************************)
\* the record of an empty text
EmptyRecord ==
    [raw_text |-> <<>>,
     contact |-> [email |-> Null, phone |-> Null, linkedin |-> Null, github |-> Null],
     skills |-> <<>>,
     education |-> <<>>,
     experience |-> <<>>,
     word_count |-> 0,
     parsed_successfully |-> TRUE]

\* C6: when reading a .pdf document fails, parse does not raise: the text
\* is empty, the extractors run on it, and the record returned is the record
\* of an empty text.
C6_PdfFailureDegrades ==
    (path.pdf /\ path.fault # "none") =>
        /\ pc # "raised"
        /\ pc = "extract" => text = <<>>
        /\ pc = "returned" =>
              /\ result = EmptyRecord
              /\ contact = EmptyRecord.contact
              /\ sections = << <<>> >>

\* C6, witness: a PDF document with a page that cannot be extracted, after
\* earlier pages that could: the record of an empty text was returned.
C6_Witness ==
    /\ pc = "returned"
    /\ path.pdf
    /\ path.fault = "page"
    /\ Len(path.pages) > 1
    /\ result.word_count = 0
    /\ result.parsed_successfully

\* C7 as stated: when the file is missing, or a file that is no PDF cannot
\* be read or decoded, parse raises: no extractor runs, nothing is returned.
C7_FailurePropagates ==
    (path.fault = "missing" \/ (~path.pdf /\ path.fault # "none")) =>
        /\ pc \in {"parse", "raised"}
        /\ result = Null
        /\ text = <<>>

\* C7, amended: when a file that is no PDF is missing or cannot be read or
\* decoded, parse raises: no extractor runs, nothing is returned.
C7_NonPdfFailurePropagates ==
    (~path.pdf /\ path.fault # "none") =>
        /\ pc \in {"parse", "raised"}
        /\ result = Null
        /\ text = <<>>
        /\ Fresh

\* C7, witness: parse has raised for a missing file that is no PDF.
C7_Witness ==
    /\ pc = "raised"
    /\ ~path.pdf
    /\ path.fault = "missing"
    /\ result = Null

=============================================================================
